---------------------------- MODULE Spec2Model ----------------------------
(***************************************************************************)
(* A model of mhtml_from_zip.py: the conversion of a (possibly nested) ZIP *)
(* archive holding an HTML document and its images into one MHTML file.    *)
(*                                                                         *)
(* Text is modelled by TLA+ strings; Len, \o and SubSeq act on them as on  *)
(* sequences of characters.  Raw bytes are sequences of numbers 0..255.    *)
(* Each component of the program is checked under a specification of its   *)
(* own (SpecResolve, SpecDetect, SpecFind, SpecSelect, SpecRewrite) whose  *)
(* initial states draw the component's inputs from bounded sets.           *)
(***************************************************************************)
EXTENDS Integers, Sequences, FiniteSets, TLC

VARIABLES
    pc,          \* the position of the component under check
    os_name,     \* "posix" or "nt": which os.path the interpreter binds
    base_html,   \* resolve_rel_path: the base document's path
    ref_path,    \* resolve_rel_path: the reference
    rel,         \* resolve_rel_path: the path returned
    html_bytes,  \* detect_encoding: the buffer, as <<lead, pad, tail>>
    charset,     \* detect_encoding: the encoding name returned
    root_bytes,  \* the outermost archive
    max_depth,   \* find_leaf_zip_with_html: the depth limit
    leaf_bytes,  \* the layer find_leaf_zip_with_html returned: <<b>>, or <<>> for None
    error,       \* the error process_zip raised, "" if none
    names,       \* process_zip: the chosen layer's listing
    html_name_override,  \* process_zip: <<s>> for the string s, <<>> for None
    html_name,   \* process_zip: the main document's path
    matches,     \* the <img src> matches of html_text re.sub has handled so far
    new_html,    \* what re.sub has put in the place of each of them
    resources,   \* process_zip.resources
    cid_map,     \* process_zip.cid_map
    inlined,     \* process_zip.inlined
    output       \* the children of the MIME container written out, <<>> before

resolveVars == <<base_html, ref_path, rel>>

detectVars == <<html_bytes, charset>>

findVars == <<root_bytes, max_depth, leaf_bytes>>

selectVars == <<names, html_name_override, html_name>>

rewriteVars == <<matches, new_html, resources, cid_map, inlined>>

vars == <<pc, os_name, error, output, resolveVars, detectVars, findVars, selectVars,
          rewriteVars>>

-----------------------------------------------------------------------------
(* Python's str operations, as far as the program uses them.               *)

Ch(s, i) == SubSeq(s, i, i)

Rest(s, i) == SubSeq(s, i, Len(s))

StartsWith(s, p) == Len(p) <= Len(s) /\ SubSeq(s, 1, Len(p)) = p

EndsWith(s, p) == Len(p) <= Len(s) /\ SubSeq(s, Len(s) - Len(p) + 1, Len(s)) = p

UpperAZ == "ABCDEFGHIJKLMNOPQRSTUVWXYZ"

LowerAZ == "abcdefghijklmnopqrstuvwxyz"

LowerCh(c) ==
    IF \E i \in 1..26 : Ch(UpperAZ, i) = c
    THEN Ch(LowerAZ, CHOOSE i \in 1..26 : Ch(UpperAZ, i) = c)
    ELSE c

RECURSIVE Lower(_)
Lower(s) == IF s = "" THEN "" ELSE LowerCh(Ch(s, 1)) \o Lower(Rest(s, 2))

\* s.replace(a, b) for single characters a and b
RECURSIVE Replace(_, _, _)
Replace(s, a, b) ==
    IF s = "" THEN ""
    ELSE (IF Ch(s, 1) = a THEN b ELSE Ch(s, 1)) \o Replace(Rest(s, 2), a, b)

\* s.lstrip(chars) and s.rstrip(chars), chars a set of characters
RECURSIVE LStrip(_, _)
LStrip(s, chars) ==
    IF s # "" /\ Ch(s, 1) \in chars THEN LStrip(Rest(s, 2), chars) ELSE s

RECURSIVE RStrip(_, _)
RStrip(s, chars) ==
    IF s # "" /\ Ch(s, Len(s)) \in chars
    THEN RStrip(SubSeq(s, 1, Len(s) - 1), chars)
    ELSE s

\* s.find(c) for a single character c: the first index (from 1), 0 if none
Find(s, c) ==
    IF \E i \in 1..Len(s) : Ch(s, i) = c
    THEN CHOOSE i \in 1..Len(s) : Ch(s, i) = c /\ \A j \in 1..(i - 1) : Ch(s, j) # c
    ELSE 0

\* s.split(c): the pieces of s between the occurrences of the character c
RECURSIVE Split(_, _)
Split(s, c) ==
    LET i == Find(s, c)
    IN  IF i = 0 THEN <<s>>
        ELSE <<SubSeq(s, 1, i - 1)>> \o Split(Rest(s, i + 1), c)

\* s.split(c, 1)[0]
SplitFirst(s, c) ==
    LET i == Find(s, c) IN IF i = 0 THEN s ELSE SubSeq(s, 1, i - 1)

\* c.join(comps)
RECURSIVE Join(_, _)
Join(comps, c) ==
    IF comps = <<>> THEN ""
    ELSE IF Len(comps) = 1 THEN comps[1]
    ELSE comps[1] \o c \o Join(Tail(comps), c)

-----------------------------------------------------------------------------
(* os.path: posixpath on POSIX, ntpath on Windows.  The paths the program  *)
(* hands over carry no drive letter.                                       *)

Seps == IF os_name = "nt" THEN {"/", "\\"} ELSE {"/"}

Sep == IF os_name = "nt" THEN "\\" ELSE "/"

\* the length of the longest prefix of p that ends in a separator
LastSep(p) ==
    IF \E i \in 1..Len(p) : Ch(p, i) \in Seps
    THEN CHOOSE i \in 1..Len(p) :
            Ch(p, i) \in Seps /\ \A j \in (i + 1)..Len(p) : Ch(p, j) \notin Seps
    ELSE 0

os_path_dirname(p) ==
    LET head == SubSeq(p, 1, LastSep(p))
    IN  IF RStrip(head, Seps) = "" THEN head ELSE RStrip(head, Seps)

os_path_join(a, b) ==
    IF b # "" /\ Ch(b, 1) \in Seps THEN b
    ELSE IF a # "" /\ Ch(a, Len(a)) \notin Seps THEN a \o Sep \o b
    ELSE a \o b

\* the loop of normpath over the components: "" and "." are dropped, ".."
\* removes the component before it unless there is none or it is ".." too
RECURSIVE Collapse(_, _, _)
Collapse(comps, done, rooted) ==
    IF comps = <<>> THEN done
    ELSE LET c == Head(comps)
         IN  IF c \in {"", "."} THEN Collapse(Tail(comps), done, rooted)
             ELSE IF c # ".." THEN Collapse(Tail(comps), Append(done, c), rooted)
             ELSE IF done # <<>> /\ done[Len(done)] # ".."
                  THEN Collapse(Tail(comps), SubSeq(done, 1, Len(done) - 1), rooted)
             ELSE IF done = <<>> /\ rooted THEN Collapse(Tail(comps), done, rooted)
             ELSE Collapse(Tail(comps), Append(done, c), rooted)

posix_normpath(path) ==
    IF path = "" THEN "."
    ELSE LET slashes == IF ~StartsWith(path, "/") THEN ""
                        ELSE IF StartsWith(path, "//") /\ ~StartsWith(path, "///")
                             THEN "//" ELSE "/"
             out == slashes \o Join(Collapse(Split(path, "/"), <<>>, slashes # ""), "/")
         IN  IF out = "" THEN "." ELSE out

nt_normpath(path) ==
    LET p      == Replace(path, "/", "\\")
        prefix == IF StartsWith(p, "\\") THEN "\\" ELSE ""
        comps  == Collapse(Split(LStrip(p, {"\\"}), "\\"), <<>>, prefix # "")
    IN  IF prefix = "" /\ comps = <<>> THEN "."
        ELSE prefix \o Join(comps, "\\")

os_path_normpath(path) ==
    IF os_name = "nt" THEN nt_normpath(path) ELSE posix_normpath(path)

-----------------------------------------------------------------------------
(* The path resolver.                                                      *)

normalize_zip_path(p) == Replace(p, "\\", "/")

resolve_rel_path(base, ref) ==
    LET base_dir == os_path_dirname(base)
        joined   == IF ref # "" /\ Ch(ref, 1) \in {"/", "\\"}
                    THEN os_path_normpath(LStrip(ref, {"/", "\\"}))
                    ELSE os_path_normpath(os_path_join(base_dir, ref))
    IN  normalize_zip_path(joined)

-----------------------------------------------------------------------------
(* The encoding detector.  Bytes are numbers; the characters of the        *)
(* decoded head are kept as their ASCII codes.                             *)

\* the printable ASCII characters, codes 32 to 95 and 97 to 126 (a TLA+
\* string cannot hold the grave accent, code 96; no input has one)
AsciiLow ==
    " !\"#$%&'()*+,-./0123456789:;<=>?@ABCDEFGHIJKLMNOPQRSTUVWXYZ[\\]^_"

AsciiHigh == "abcdefghijklmnopqrstuvwxyz{|}~"

Chr(n) == IF n < 96 THEN Ch(AsciiLow, n - 31) ELSE Ch(AsciiHigh, n - 96)

Ord(c) ==
    IF \E i \in 1..Len(AsciiLow) : Ch(AsciiLow, i) = c
    THEN 31 + CHOOSE i \in 1..Len(AsciiLow) : Ch(AsciiLow, i) = c
    ELSE 96 + CHOOSE i \in 1..Len(AsciiHigh) : Ch(AsciiHigh, i) = c

\* str -> bytes and back, for text of printable ASCII
Encode(s) == [i \in 1..Len(s) |-> Ord(Ch(s, i))]

RECURSIVE Decode(_)
Decode(b) == IF b = <<>> THEN "" ELSE Chr(Head(b)) \o Decode(Tail(b))

BOM_UTF8 == <<239, 187, 191>>

BOM_UTF16_LE == <<255, 254>>

BOM_UTF16_BE == <<254, 255>>

HeadLen == 8192

BytesStartWith(b, p) == Len(p) <= Len(b) /\ SubSeq(b, 1, Len(p)) = p

\* bytes.decode("ascii", errors="ignore"): the bytes above 127 are dropped
ascii_ignore(b) == SelectSeq(b, LAMBDA x : x < 128)

LowerCode(x) == IF x >= 65 /\ x <= 90 THEN x + 32 ELSE x

\* [A-Za-z0-9_\-]
IsTokenCode(x) ==
    \/ x >= 65 /\ x <= 90
    \/ x >= 97 /\ x <= 122
    \/ x >= 48 /\ x <= 57
    \/ x = 95
    \/ x = 45

\* ["\']
IsQuoteCode(x) == x = 34 \/ x = 39

CharsetEq == Encode("charset=")

\* where group 1 starts if the pattern matches at i, 0 if it does not: the
\* optional quote is taken when a token character follows it
TokenStart(h, i) ==
    IF i + 8 > Len(h) \/ \E k \in 1..8 : LowerCode(h[i + k - 1]) # CharsetEq[k]
    THEN 0
    ELSE IF IsQuoteCode(h[i + 8]) /\ i + 9 <= Len(h) /\ IsTokenCode(h[i + 9])
    THEN i + 9
    ELSE IF IsTokenCode(h[i + 8]) THEN i + 8
    ELSE 0

\* the end of the longest run of token characters that starts at j
RECURSIVE TokenEnd(_, _)
TokenEnd(h, j) ==
    IF j < Len(h) /\ IsTokenCode(h[j + 1]) THEN TokenEnd(h, j + 1) ELSE j

\* re.search(r"charset=[\"\']?([A-Za-z0-9_\-]+)", head, re.I): group 1 of the
\* leftmost match, "" when there is none
re_search_charset(h) ==
    LET at == {i \in 1..Len(h) : TokenStart(h, i) # 0}
    IN  IF at = {} THEN ""
        ELSE LET i == CHOOSE x \in at : \A y \in at : x <= y
                 j == TokenStart(h, i)
             IN  Decode(SubSeq(h, j, TokenEnd(h, j)))

\* detect_encoding without the [:8192] slice
detect_encoding_unsliced(b) ==
    IF BytesStartWith(b, BOM_UTF8) THEN "utf-8"
    ELSE IF BytesStartWith(b, BOM_UTF16_LE) THEN "utf-16le"
    ELSE IF BytesStartWith(b, BOM_UTF16_BE) THEN "utf-16be"
    ELSE LET m == re_search_charset(ascii_ignore(b))
         IN  IF m # "" THEN Lower(m) ELSE "utf-8"

detect_encoding(b) ==
    IF BytesStartWith(b, BOM_UTF8) THEN "utf-8"
    ELSE IF BytesStartWith(b, BOM_UTF16_LE) THEN "utf-16le"
    ELSE IF BytesStartWith(b, BOM_UTF16_BE) THEN "utf-16be"
    ELSE LET head == ascii_ignore(SubSeq(b, 1, IF Len(b) < HeadLen THEN Len(b) ELSE HeadLen))
             m    == re_search_charset(head)
         IN  IF m # "" THEN Lower(m) ELSE "utf-8"

-----------------------------------------------------------------------------
(* Archives.  A byte buffer is known by its length and by what zipfile     *)
(* makes of it: not an archive, or the entries of its central directory,   *)
(* each a name and the buffer stored under it.                             *)

NotZip(n) == [len |-> n, zip |-> FALSE, entries |-> <<>>]

Zip(n, es) == [len |-> n, zip |-> TRUE, entries |-> es]

Entry(name, data) == [name |-> name, data |-> data]

None == <<>>

\* ZipInfo: on Windows the backslashes of a stored name become slashes
zipfile_filename(raw) == IF os_name = "nt" THEN Replace(raw, "\\", "/") ELSE raw

\* ZipFile.namelist()
zf_namelist(b) == [i \in 1..Len(b.entries) |-> zipfile_filename(b.entries[i].name)]

\* ZipFile.read(n) raises KeyError unless some entry has the name n
zf_has(b, n) == \E i \in 1..Len(b.entries) : zf_namelist(b)[i] = n

\* ZipFile.read(n): of the entries named n, the last one listed
zf_read(b, n) ==
    LET at == {i \in 1..Len(b.entries) : zf_namelist(b)[i] = n}
    IN  b.entries[CHOOSE i \in at : \A j \in at : j <= i].data

IsHtmlName(n) == EndsWith(Lower(n), ".html") \/ EndsWith(Lower(n), ".htm")

\* [normalize_zip_path(n) for n in zf.namelist()]
listing(b) == [i \in 1..Len(b.entries) |-> normalize_zip_path(zf_namelist(b)[i])]

-----------------------------------------------------------------------------
(* The archive navigator.  helper returns the layer found (or None) and    *)
(* the set seen as the call left it.                                       *)

RECURSIVE helper(_, _, _, _), helper_loop(_, _, _, _, _, _)

\* the for loop of helper over names[i..]; layer is helper's list names
helper_loop(b, layer, i, depth, md, seen) ==
    IF i > Len(layer) THEN [res |-> None, seen |-> seen]
    ELSE IF ~EndsWith(Lower(layer[i]), ".zip")
    THEN helper_loop(b, layer, i + 1, depth, md, seen)
    ELSE IF ~zf_has(b, layer[i])
    THEN helper_loop(b, layer, i + 1, depth, md, seen)
    ELSE LET child == zf_read(b, layer[i])
             key   == <<layer[i], child.len>>
         IN  IF key \in seen
             THEN helper_loop(b, layer, i + 1, depth, md, seen)
             ELSE LET r == helper(child, depth + 1, md, seen \cup {key})
                  IN  IF r.res # None THEN r
                      ELSE helper_loop(b, layer, i + 1, depth, md, r.seen)

helper(b, depth, md, seen) ==
    IF depth > md THEN [res |-> None, seen |-> seen]
    ELSE IF ~b.zip THEN [res |-> None, seen |-> seen]
    ELSE LET layer == listing(b)
         IN  IF \E i \in 1..Len(layer) : IsHtmlName(layer[i])
             THEN [res |-> <<b>>, seen |-> seen]
             ELSE helper_loop(b, layer, 1, depth, md, seen)

find_leaf_zip_with_html(zip_bytes, md) == helper(zip_bytes, 0, md, {}).res

-----------------------------------------------------------------------------
(* The HTML selector.                                                      *)

Range(f) == {f[i] : i \in DOMAIN f}

\* pick_main_html, returning the last HTML name instead of the first
pick_last_html(ns) ==
    LET at == {i \in 1..Len(ns) : IsHtmlName(ns[i])}
    IN  IF at = {} THEN "" ELSE ns[CHOOSE i \in at : \A j \in at : j <= i]

pick_main_html(ns) ==
    LET at == {i \in 1..Len(ns) : IsHtmlName(ns[i])}
    IN  IF at = {} THEN "" ELSE ns[CHOOSE i \in at : \A j \in at : i <= j]

\* "if html_name_override:": None and "" are both false
Truthy(override) == override # None /\ override[1] # ""

\* the choice of the main HTML: the name chosen and the error raised
select_html(ns, override) ==
    IF Truthy(override)
    THEN IF override[1] \in Range(ns)
         THEN [name |-> override[1], error |-> ""]
         ELSE [name |-> "", error |-> "HtmlOverrideNotFound"]
    ELSE IF pick_main_html(ns) # ""
         THEN [name |-> pick_main_html(ns), error |-> ""]
         ELSE [name |-> "", error |-> "NoHtmlFound"]

-----------------------------------------------------------------------------
(* The reference rewriter.  A match of essential_img_src_re is its groups: *)
(* prefix (up to and including src=), quote and path.                      *)

Group0(m) == m.prefix \o m.quote \o m.path \o m.quote

\* path.split("#", 1)[0].split("?", 1)[0]
PathCore(path) == SplitFirst(SplitFirst(path, "#"), "?")

\* external_scheme_re without the // alternative
external_scheme_no_slashes(path_core) ==
    \E scheme \in {"http:", "https:", "data:", "cid:"} :
        StartsWith(Lower(path_core), scheme)

\* external_scheme_re.match(path_core): ^(https?:|data:|cid:|//), re.I
external_scheme_re_match(path_core) ==
    \E scheme \in {"http:", "https:", "data:", "cid:", "//"} :
        StartsWith(Lower(path_core), scheme)

HexDigits == "0123456789abcdef"

IsHex(c) == \E i \in 1..16 : Ch(HexDigits, i) = LowerCh(c)

HexVal(c) == (CHOOSE i \in 1..16 : Ch(HexDigits, i) = LowerCh(c)) - 1

\* urllib.parse.unquote: every %XX with two hex digits becomes the character
\* of that code; "?" stands for a code outside printable ASCII (no input
\* has one)
RECURSIVE unquote(_)
unquote(t) ==
    IF t = "" THEN ""
    ELSE IF Ch(t, 1) = "%" /\ Len(t) >= 3 /\ IsHex(Ch(t, 2)) /\ IsHex(Ch(t, 3))
    THEN LET code == 16 * HexVal(Ch(t, 2)) + HexVal(Ch(t, 3))
         IN  (IF code >= 32 /\ code <= 126 /\ code # 96 THEN Chr(code) ELSE "?")
             \o unquote(Rest(t, 4))
    ELSE Ch(t, 1) \o unquote(Rest(t, 2))

\* candidates: the path core, and its decoded form when that differs
Candidates(path_core) ==
    IF unquote(path_core) # path_core THEN <<path_core, unquote(path_core)>>
    ELSE <<path_core>>

\* first_hit, falling back on an entry with the candidate's file name
first_hit_by_basename(base, cands, name_set) ==
    LET hits == {i \in 1..Len(cands) : resolve_rel_path(base, cands[i]) \in name_set}
        tail(p) == LET segs == Split(p, "/") IN segs[Len(segs)]
        same == {n \in name_set : tail(n) = tail(normalize_zip_path(cands[Len(cands)]))}
    IN  IF hits # {}
        THEN <<resolve_rel_path(base, cands[CHOOSE i \in hits : \A j \in hits : i <= j])>>
        ELSE IF same # {} THEN <<CHOOSE n \in same : TRUE>>
        ELSE None

\* "for cand in candidates": <<rel>> for the first candidate whose resolved
\* path is in name_set, None when the loop runs out
first_hit(base, cands, name_set) ==
    LET hits == {i \in 1..Len(cands) : resolve_rel_path(base, cands[i]) \in name_set}
    IN  IF hits = {} THEN None
        ELSE <<resolve_rel_path(base, cands[CHOOSE i \in hits : \A j \in hits : i <= j])>>

\* "if rel not in cid_map" taken for every match
not_in_cid_map_always(r, map) == TRUE

\* "if rel not in cid_map"
not_in_cid_map(r, map) == r \notin DOMAIN map

\* resources.insert(0, res) in the place of resources.append(res)
resources_prepend(rs, res) == <<res>> \o rs

\* resources.append(res)
resources_append(rs, res) == Append(rs, res)

\* mimetypes.guess_type(rel)[0], for the extensions the archives use
guess_type(r) ==
    IF EndsWith(Lower(r), ".png") THEN <<"image/png">>
    ELSE IF IsHtmlName(r) THEN <<"text/html">>
    ELSE None

\* the bytes stored under an entry name
EntryData(n) == "bytes of " \o n

\* the dict appended to resources
Resource(r, cid) ==
    [name |-> r,
     cid  |-> cid,
     data |-> EntryData(r),
     mime |-> IF guess_type(r) # None THEN guess_type(r)[1] ELSE "application/octet-stream"]

\* uuid.uuid4().hex: the tokens a run can draw; a draw is fresh
MaxRefs == 3

Uuids == {"u" \o Ch(HexDigits, i) : i \in 1..MaxRefs}

UsedCids == {resources[k].cid : k \in 1..Len(resources)}

-----------------------------------------------------------------------------
(* The MIME packager: the children of the multipart/related root, in the   *)
(* order attached.  A part is its Content-Type, Content-ID ("" when it has *)
(* none), Content-Location and payload.                                    *)

os_path_basename(p) == Rest(p, LastSep(p) + 1)

\* (mime.split("/", 1) + ["octet-stream"])[:2]
maintype_subtype(mime) ==
    LET i == Find(mime, "/")
    IN  IF i = 0 THEN <<mime, "octet-stream">>
        ELSE <<SubSeq(mime, 1, i - 1), Rest(mime, i + 1)>>

ResourcePart(res) ==
    [ctype    |-> maintype_subtype(res.mime)[1] \o "/" \o maintype_subtype(res.mime)[2],
     cid      |-> "<" \o res.cid \o ">",
     location |-> res.name,
     payload  |-> res.data]

\* build_mhtml labelling each resource part with its file name only
build_mhtml_basename(html_text, name, rs, cs) ==
    <<[ctype    |-> "text/html",
       charset  |-> cs,
       cid      |-> "",
       location |-> IF os_path_basename(name) # "" THEN os_path_basename(name)
                    ELSE "index.html",
       payload  |-> html_text]>>
    \o [k \in 1..Len(rs) |->
           [ResourcePart(rs[k]) EXCEPT !.location = os_path_basename(rs[k].name)]]

build_mhtml(html_text, name, rs, cs) ==
    <<[ctype    |-> "text/html",
       charset  |-> cs,
       cid      |-> "",
       location |-> IF os_path_basename(name) # "" THEN os_path_basename(name)
                    ELSE "index.html",
       payload  |-> html_text]>>
    \o [k \in 1..Len(rs) |-> ResourcePart(rs[k])]

-----------------------------------------------------------------------------
(* What a specification leaves alone.                                      *)

IdleResolve == base_html = "" /\ ref_path = "" /\ rel = ""

IdleDetect == html_bytes = <<>> /\ charset = ""

IdleFind == root_bytes = <<>> /\ max_depth = 0 /\ leaf_bytes = <<>>

IdleSelect == names = <<>> /\ html_name_override = <<>> /\ html_name = ""

IdleRewrite ==
    /\ matches = <<>>
    /\ new_html = <<>>
    /\ resources = <<>>
    /\ cid_map = <<>>
    /\ inlined = <<>>

-----------------------------------------------------------------------------
(* SpecResolve: resolve_rel_path applied to one base document and one      *)
(* reference.                                                              *)

MaxRefLen == 5

RefAlphabet == {"a", "b", ".", "/", "\\"}

RECURSIVE StringsUpTo(_, _)
StringsUpTo(alphabet, n) ==
    IF n = 0 THEN {""}
    ELSE LET shorter == StringsUpTo(alphabet, n - 1)
         IN  shorter \cup {s \o c : s \in shorter, c \in alphabet}

BaseDocs == {"x.htm", "s/x.htm", "s/t/x.htm"}

OsNames == {"posix", "nt"}

InitResolve ==
    /\ pc = "resolve"
    /\ os_name \in OsNames
    /\ base_html \in BaseDocs
    /\ ref_path \in StringsUpTo(RefAlphabet, MaxRefLen)
    /\ rel = ""
    /\ error = ""
    /\ output = <<>>
    /\ IdleDetect
    /\ IdleFind
    /\ IdleSelect
    /\ IdleRewrite

Resolve ==
    /\ pc = "resolve"
    /\ rel' = resolve_rel_path(base_html, ref_path)
    /\ pc' = "resolved"
    /\ UNCHANGED <<os_name, error, output, base_html, ref_path, detectVars, findVars,
                   selectVars, rewriteVars>>

NextResolve == Resolve

SpecResolve == InitResolve /\ [][NextResolve]_vars

RootRelative(ref) == ref # "" /\ Ch(ref, 1) \in {"/", "\\"}

HasBackslash(p) == \E i \in 1..Len(p) : Ch(p, i) = "\\"

\* no segment is empty or ".", and ".." stands only at the front
IsCollapsed(p) ==
    \/ p = "."
    \/ LET segs == Split(p, "/")
       IN  /\ \A i \in 1..Len(segs) : segs[i] \notin {"", "."}
           /\ \A i \in 2..Len(segs) : segs[i] = ".." => segs[i - 1] = ".."

\* p with either separator style read as a separator, collapsed, in
\* forward-slash form
Canonical(p) ==
    LET segs == Collapse(Split(Replace(p, "\\", "/"), "/"), <<>>, FALSE)
    IN  IF segs = <<>> THEN "." ELSE Join(segs, "/")

\* the directory of a forward-slash path that names a file
DirOf(p) ==
    LET segs == Split(p, "/") IN Join(SubSeq(segs, 1, Len(segs) - 1), "/")

\* C9: a reference that begins with a path separator resolves to itself with
\* the leading separators stripped and the "." and ".." segments collapsed,
\* in forward-slash form, whatever the base document's directory; any other
\* reference resolves to the base document's directory joined with it,
\* normalised.
C9_RootRelativeResolution ==
    pc = "resolved" =>
        /\ ~HasBackslash(rel)
        /\ IsCollapsed(rel)
        /\ RootRelative(ref_path) =>
               /\ rel = Canonical(LStrip(ref_path, {"/", "\\"}))
               /\ \A b \in BaseDocs : resolve_rel_path(b, ref_path) = rel
        /\ ~RootRelative(ref_path) =>
               rel = Canonical(DirOf(base_html) \o "/" \o ref_path)

-----------------------------------------------------------------------------
(* SpecDetect: detect_encoding applied to one buffer.  A buffer is         *)
(* lead \o (pad spaces) \o tail, so that a declaration can be placed on    *)
(* either side of the 8192-byte window.                                    *)

PadSlack == 12

Leads == {<<>>, BOM_UTF8, BOM_UTF16_LE, BOM_UTF16_BE, <<239, 187>>, <<254>>, <<60, 233>>}

Pads == {0, HeadLen + 1} \cup {HeadLen - k : k \in 0..PadSlack}

Tails ==
    {Encode(s) : s \in {"", "charset=gbk", "CharSet=\"GB2312\">", "charset='Big5'",
                        "charset=", "charset=\"", "charset= x", "harset=gbk",
                        "charset=;charset=K-8_r;charset=b", "xcharset=U8 charset=b"}}
    \cup {Encode("char") \o <<233>> \o Encode("SET=Latin-1")}

Buffer(b) == b[1] \o [i \in 1..b[2] |-> 32] \o b[3]

InitDetect ==
    /\ pc = "detect"
    /\ os_name = "posix"
    /\ html_bytes \in Leads \X Pads \X Tails
    /\ charset = ""
    /\ error = ""
    /\ output = <<>>
    /\ IdleResolve
    /\ IdleFind
    /\ IdleSelect
    /\ IdleRewrite

Detect ==
    /\ pc = "detect"
    /\ charset' = detect_encoding(Buffer(html_bytes))
    /\ pc' = "detected"
    /\ UNCHANGED <<os_name, error, output, html_bytes, resolveVars, findVars,
                   selectVars, rewriteVars>>

NextDetect == Detect

SpecDetect == InitDetect /\ [][NextDetect]_vars

\* the first HeadLen bytes, less the bytes that are not ASCII
Window(b) == SelectSeq(SubSeq(b, 1, IF Len(b) < HeadLen THEN Len(b) ELSE HeadLen),
                       LAMBDA x : x <= 127)

IsCharsetEq(h, i) ==
    /\ i + 7 <= Len(h)
    /\ h[i] \in {67, 99}
    /\ Lower(Decode(SubSeq(h, i, i + 7))) = "charset="

\* at i stands charset=, an optional quote, and a token character
DeclaredAt(h, i) ==
    /\ IsCharsetEq(h, i)
    /\ \/ i + 8 <= Len(h) /\ IsTokenCode(h[i + 8])
       \/ i + 9 <= Len(h) /\ IsQuoteCode(h[i + 8]) /\ IsTokenCode(h[i + 9])

\* name is the lower-cased token of the declaration at i: all of the token
\* characters that follow charset= and the optional quote
IsDeclaredToken(h, i, name) ==
    LET j == IF IsQuoteCode(h[i + 8]) THEN i + 9 ELSE i + 8
        e == j + Len(name) - 1
    IN  /\ name # ""
        /\ e <= Len(h)
        /\ \A k \in j..e : IsTokenCode(h[k])
        /\ e < Len(h) => ~IsTokenCode(h[e + 1])
        /\ Lower(Decode(SubSeq(h, j, e))) = name

\* C8: a leading byte-order mark decides the encoding whatever the buffer
\* declares; without one, the answer is the lower-cased token of the first
\* charset= declaration in the first 8192 bytes (a declaration beyond them is
\* ignored), and utf-8 when there is none.
C8_DetectionPriority ==
    pc = "detected" =>
        LET b == Buffer(html_bytes)
            h == Window(b)
            decls == {i \in 1..Len(h) : DeclaredAt(h, i)}
        IN  IF BytesStartWith(b, <<239, 187, 191>>) THEN charset = "utf-8"
            ELSE IF BytesStartWith(b, <<255, 254>>) THEN charset = "utf-16le"
            ELSE IF BytesStartWith(b, <<254, 255>>) THEN charset = "utf-16be"
            ELSE IF decls = {} THEN charset = "utf-8"
            ELSE \E i \in decls :
                    /\ \A j \in decls : i <= j
                    /\ IsDeclaredToken(h, i, charset)

\* a buffer without a byte-order mark that declares GB2312 in mixed case
C8_Witness ==
    /\ pc = "detected"
    /\ html_bytes = <<<<60, 233>>, 0, Encode("CharSet=\"GB2312\">")>>
    /\ charset = "gb2312"

-----------------------------------------------------------------------------
(* SpecFind: find_leaf_zip_with_html applied to one archive and one depth  *)
(* limit, and the error process_zip raises when it returns None.  The      *)
(* archives are chains of nested archives and archives with two nested     *)
(* archives side by side.                                                  *)

MaxChain == 3

MaxFork == 1

MaxDepthArg == 3

MaxBytes == 2

Lens == 1..MaxBytes

ZipNames == {"a.zip", "B.ZIP"}

HtmlNames == {"i.html", "d/I.HTM"}

Innermost ==
    {Zip(n, <<Entry(h, NotZip(1))>>) : n \in Lens, h \in HtmlNames}
    \cup {Zip(n, <<Entry("t.txt", NotZip(1))>>) : n \in Lens}
    \cup {NotZip(n) : n \in Lens}

RECURSIVE Chains(_)
Chains(d) ==
    IF d = 0 THEN Innermost
    ELSE LET inner == Chains(d - 1)
         IN  inner \cup {Zip(n, <<Entry(z, c)>>) : n \in Lens, z \in ZipNames, c \in inner}

Forks ==
    LET es == {Entry(z, c) : z \in ZipNames, c \in Chains(MaxFork)}
    IN  {Zip(1, <<p[1], p[2]>>) : p \in {q \in es \X es : q[1].name # q[2].name}}

InitFind ==
    /\ pc = "find"
    /\ os_name \in OsNames
    /\ root_bytes \in Chains(MaxChain) \cup Forks
    /\ max_depth \in 0..MaxDepthArg
    /\ leaf_bytes = None
    /\ error = ""
    /\ output = <<>>
    /\ IdleResolve
    /\ IdleDetect
    /\ IdleSelect
    /\ IdleRewrite

FindLeaf ==
    /\ pc = "find"
    /\ leaf_bytes' = find_leaf_zip_with_html(root_bytes, max_depth)
    /\ error' = IF leaf_bytes' = None THEN "NoHtmlLayerFound" ELSE ""
    /\ pc' = IF leaf_bytes' = None THEN "failed" ELSE "found"
    /\ UNCHANGED <<os_name, output, root_bytes, max_depth, resolveVars, detectVars,
                   selectVars, rewriteVars>>

NextFind == FindLeaf

SpecFind == InitFind /\ [][NextFind]_vars

HasHtml(b) == b.zip /\ \E i \in 1..Len(b.entries) : IsHtmlName(b.entries[i].name)

\* the archive layers at depth d or more, down to depth md, reached from b
\* (itself at depth d) through the entries named *.zip
RECURSIVE LayersWithin(_, _, _)
LayersWithin(b, d, md) ==
    IF d > md \/ ~b.zip THEN {}
    ELSE {b} \cup UNION {LayersWithin(b.entries[i].data, d + 1, md) :
                            i \in {j \in 1..Len(b.entries) :
                                      EndsWith(Lower(b.entries[j].name), ".zip")}}

\* C4: NoHtmlLayerFound is raised only when no archive layer within the
\* depth limit holds an HTML entry: if some layer reachable through .zip
\* entries at depth <= max_depth has one, a layer is returned.
C4_NotFoundOnlyWithoutHtmlLayer ==
    pc \in {"found", "failed"} =>
        ((\E l \in LayersWithin(root_bytes, 0, max_depth) : HasHtml(l))
            => leaf_bytes # None /\ error # "NoHtmlLayerFound")

\* b heads a chain: every layer's sole entry is the next archive, and the
\* innermost layer, the only one with an HTML entry, is a valid archive
RECURSIVE IsChain(_)
IsChain(b) ==
    /\ b.zip
    /\ \/ HasHtml(b)
       \/ /\ Len(b.entries) = 1
          /\ EndsWith(Lower(b.entries[1].name), ".zip")
          /\ IsChain(b.entries[1].data)

RECURSIVE ChainDepth(_)
ChainDepth(b) == IF HasHtml(b) THEN 0 ELSE 1 + ChainDepth(b.entries[1].data)

RECURSIVE ChainEnd(_)
ChainEnd(b) == IF HasHtml(b) THEN b ELSE ChainEnd(b.entries[1].data)

\* C5: for a chain whose innermost layer, at depth d, alone has an HTML
\* entry, that layer's bytes are returned unchanged when d <= max_depth and
\* not-found is signalled when d > max_depth; a returned layer has an HTML
\* entry.
C5_DepthBound ==
    pc \in {"found", "failed"} =>
        /\ leaf_bytes # None => HasHtml(leaf_bytes[1])
        /\ IsChain(root_bytes) =>
              IF ChainDepth(root_bytes) <= max_depth
              THEN leaf_bytes = <<ChainEnd(root_bytes)>>
              ELSE leaf_bytes = None /\ error = "NoHtmlLayerFound"

-----------------------------------------------------------------------------
(* The steps of process_zip once the layer is open: the choice of the main *)
(* HTML, re.sub calling replace_img_src on each match in turn, and         *)
(* build_mhtml with the write of its result.                               *)

SelectHtml ==
    /\ pc = "select"
    /\ html_name' = select_html(names, html_name_override).name
    /\ error' = select_html(names, html_name_override).error
    /\ pc' = IF error' = "" THEN "scan" ELSE "failed"
    /\ UNCHANGED <<os_name, output, names, html_name_override, resolveVars, detectVars,
                   findVars, rewriteVars>>

ReplaceImgSrc(m) ==
    /\ pc = "scan"
    /\ Len(matches) < MaxRefs
    /\ matches' = Append(matches, m)
    /\ LET path_core == PathCore(m.path)
           hit == IF external_scheme_re_match(path_core) THEN None
                  ELSE first_hit(html_name, Candidates(path_core), Range(names))
       IN  IF hit = None
           THEN /\ new_html' = Append(new_html, Group0(m))
                /\ UNCHANGED <<resources, cid_map, inlined>>
           ELSE IF not_in_cid_map(hit[1], cid_map)
           THEN \E u \in Uuids :
                   LET cid == u \o "@mhtml"
                   IN  /\ cid \notin UsedCids
                       /\ resources' = resources_append(resources, Resource(hit[1], cid))
                       /\ cid_map' = (hit[1] :> cid) @@ cid_map
                       /\ inlined' = Append(inlined, hit[1])
                       /\ new_html' = Append(new_html,
                                         m.prefix \o m.quote \o "cid:" \o cid \o m.quote)
           ELSE /\ new_html' = Append(new_html,
                                   m.prefix \o m.quote \o "cid:" \o cid_map[hit[1]] \o m.quote)
                /\ UNCHANGED <<resources, cid_map, inlined>>
    /\ UNCHANGED <<pc, os_name, error, output, resolveVars, detectVars, findVars,
                   selectVars>>

BuildMhtml ==
    /\ pc = "scan"
    /\ output' = build_mhtml(new_html, html_name, resources, "utf-8")
    /\ pc' = "done"
    /\ UNCHANGED <<os_name, error, resolveVars, detectVars, findVars, selectVars,
                   rewriteVars>>

-----------------------------------------------------------------------------
(* SpecSelect: process_zip on a layer whose HTML holds no image, for every *)
(* listing with an HTML entry (find_leaf_zip_with_html returns no other)   *)
(* and every override.                                                     *)

MaxNames == 3

NamePool == {"a.html", "b.html", "d/C.HTM", "t.txt"}

Listings ==
    {l \in UNION {[1..n -> NamePool] : n \in 1..MaxNames} :
        \E i \in 1..Len(l) : IsHtmlName(l[i])}

Overrides == {None, <<"">>, <<"b.html">>, <<"c.html">>, <<"d/c.htm">>, <<"t.txt">>}

InitSelect ==
    /\ pc = "select"
    /\ os_name \in OsNames
    /\ names \in Listings
    /\ html_name_override \in Overrides
    /\ html_name = ""
    /\ error = ""
    /\ output = <<>>
    /\ IdleResolve
    /\ IdleDetect
    /\ IdleFind
    /\ IdleRewrite

NextSelect == SelectHtml \/ BuildMhtml

SpecSelect == InitSelect /\ [][NextSelect]_vars

\* the claim's reading of "an override is provided": one was passed
Provided(override) == override # None

\* the first entry in listing order ending in .html/.htm, case-insensitively
FirstHtml(ns) ==
    ns[CHOOSE i \in 1..Len(ns) :
          /\ IsHtmlName(ns[i])
          /\ \A j \in 1..(i - 1) : ~IsHtmlName(ns[j])]

\* the selection rule, for one reading of "provided"
SelectionRule(provided) ==
    pc # "select" =>
        IF provided
        THEN IF \E i \in 1..Len(names) : names[i] = html_name_override[1]
             THEN pc # "failed" /\ error = "" /\ html_name = html_name_override[1]
             ELSE pc = "failed" /\ error = "HtmlOverrideNotFound" /\ output = <<>>
        ELSE pc # "failed" /\ error = "" /\ html_name = FirstHtml(names)

\* C6 as stated: every provided override that equals an entry path selects
\* that entry, one that equals no entry path fails with HtmlOverrideNotFound
\* and produces no output, and with no override the first HTML entry in
\* listing order is selected.
C6_OverrideSelection == SelectionRule(Provided(html_name_override))

\* C6, amended: the rule holds for every non-empty override; an empty
\* override is treated as no override.
C6_NonEmptyOverrideSelection ==
    SelectionRule(Provided(html_name_override) /\ html_name_override # <<"">>)

C6_Witness ==
    /\ pc = "done"
    /\ html_name_override = <<"b.html">>
    /\ names = <<"a.html", "b.html">>
    /\ html_name = "b.html"

-----------------------------------------------------------------------------
(* SpecRewrite: process_zip from the first match on, for two archives and  *)
(* every sequence of up to MaxRefs matches drawn from MatchPool.           *)

Archives ==
    {<<"x.htm", <<"x.htm", "d/a.png", "d/a b.png", "b.png">>>>,
     <<"s/x.htm", <<"d/a.png", "s/x.htm", "s/d/a.png", "d/a b.png", "s/b.png">>>>}

Match(prefix, quote, path) == [prefix |-> prefix, quote |-> quote, path |-> path]

MatchPool ==
    {Match("<img src=", "\"", p) :
        p \in {"d/a.png", "./d/a.png", "/d/a.png", "d/a%20b.png", "m/z.png",
               "x.htm", "http://h/b.png", "data:b.png", "//d/a.png"}}
    \cup {Match("<IMG alt=x src =", "'", p) :
        p \in {"d\\a.png", "b.png?v#f", "HTTPS://h/b.png", "cid:b.png"}}

InitRewrite ==
    /\ pc = "scan"
    /\ os_name \in OsNames
    /\ \E a \in Archives : html_name = a[1] /\ names = a[2]
    /\ html_name_override = None
    /\ error = ""
    /\ output = <<>>
    /\ IdleResolve
    /\ IdleDetect
    /\ IdleFind
    /\ IdleRewrite

NextRewrite == (\E m \in MatchPool : ReplaceImgSrc(m)) \/ BuildMhtml

SpecRewrite == InitRewrite /\ [][NextRewrite]_vars

-----------------------------------------------------------------------------
(* What the claims say of a reference, stated apart from the rewriter.     *)

\* the path core: the value up to its first # or ?
CoreOf(path) ==
    LET cut == {i \in 1..Len(path) : Ch(path, i) \in {"#", "?"}}
    IN  IF cut = {} THEN path
        ELSE SubSeq(path, 1, (CHOOSE i \in cut : \A j \in cut : i <= j) - 1)

IsExternal(path) ==
    LET core == Lower(CoreOf(path))
    IN  \/ StartsWith(core, "http:")
        \/ StartsWith(core, "https:")
        \/ StartsWith(core, "data:")
        \/ StartsWith(core, "cid:")
        \/ StartsWith(core, "//")

\* the canonical path a reference resolves to: the path core, then its
\* percent-decoded form, against the entry set; None when neither is there
TargetOf(path) ==
    LET plain   == resolve_rel_path(html_name, CoreOf(path))
        decoded == resolve_rel_path(html_name, unquote(CoreOf(path)))
        entry_set == {names[n] : n \in 1..Len(names)}
    IN  IF IsExternal(path) THEN None
        ELSE IF plain \in entry_set THEN <<plain>>
        ELSE IF decoded \in entry_set THEN <<decoded>>
        ELSE None

Refs == 1..Len(matches)

\* the i-th entry is <<path>>, the canonical path the i-th match resolves
\* to, or None
Targets == [i \in Refs |-> TargetOf(matches[i].path)] @@ <<>>

\* the quoted value of the i-th match as it stands in a rewritten text
ValueIn(text, i) == SubSeq(text[i], Len(matches[i].prefix) + 2, Len(text[i]) - 1)

AttrValue(i) == ValueIn(new_html, i)

\* C1: references that resolve to the same canonical path, however spelled,
\* are rewritten to the same content identifier, and the resource list holds
\* exactly one resource for that path; no path has two resources.
C1_OneResourcePerPath ==
    LET target == Targets
    IN  /\ \A i \in Refs : \A j \in Refs :
              (target[i] # None /\ target[i] = target[j]) =>
                  /\ StartsWith(AttrValue(i), "cid:")
                  /\ AttrValue(i) = AttrValue(j)
                  /\ Cardinality({k \in 1..Len(resources) :
                                     resources[k].name = target[i][1]}) = 1
        /\ \A k \in 1..Len(resources) : \A l \in 1..Len(resources) :
              resources[k].name = resources[l].name => k = l

C1_Witness ==
    /\ Len(matches) = 3
    /\ matches[1].path = "./d/a.png"
    /\ matches[2].path = "d\\a.png"
    /\ matches[3].path = "d/a.png"
    /\ Len(resources) = 1
    /\ AttrValue(1) = AttrValue(3)
    /\ AttrValue(1) # matches[1].path

\* C2: a match whose path core starts, in any case, with http:, https:,
\* data:, cid: or // is left byte-identical, and no resource is created for
\* it: no resource's identifier stands in its value, and there are no more
\* resources than references that are not external.
C2_ExternalUntouched ==
    /\ \A i \in Refs :
          IsExternal(matches[i].path) =>
              /\ new_html[i] = Group0(matches[i])
              /\ \A k \in 1..Len(resources) : AttrValue(i) # "cid:" \o resources[k].cid
              /\ pc = "done" => output[1].payload[i] = Group0(matches[i])
    /\ Len(resources) <= Cardinality({i \in Refs : ~IsExternal(matches[i].path)})

C2_Witness ==
    /\ pc = "done"
    /\ html_name = "x.htm"
    /\ Len(matches) = 3
    /\ matches[1].path = "//d/a.png"
    /\ matches[2].path = "HTTPS://h/b.png"
    /\ matches[3].path = "cid:b.png"
    /\ resources = <<>>
    /\ output[1].payload = <<"<img src=\"//d/a.png\"", "<IMG alt=x src ='HTTPS://h/b.png'",
                             "<IMG alt=x src ='cid:b.png'">>

\* C3: a reference that is not external and none of whose candidates (the
\* path core, then its percent-decoded form) resolves to an entry keeps its
\* value, adds no resource (every resource is the target of a reference
\* that resolves), and does not make the conversion fail.
C3_UnresolvableUntouched ==
    LET target == Targets
    IN  /\ \A i \in Refs :
              (~IsExternal(matches[i].path) /\ target[i] = None) =>
                  /\ AttrValue(i) = matches[i].path
                  /\ new_html[i] = Group0(matches[i])
                  /\ pc # "failed" /\ error = ""
                  /\ pc = "done" => output[1].payload[i] = Group0(matches[i])
        /\ \A k \in 1..Len(resources) :
              \E i \in Refs : target[i] = <<resources[k].name>>

C3_Witness ==
    /\ pc = "done"
    /\ html_name = "s/x.htm"
    /\ Len(matches) = 2
    /\ matches[1].path = "d/a%20b.png"
    /\ matches[2].path = "m/z.png"
    /\ resources = <<>>
    /\ error = ""
    /\ output[1].payload = <<"<img src=\"d/a%20b.png\"", "<img src=\"m/z.png\"">>

\* the distinct canonical paths among target[1..i], in the order in which
\* each first occurs
RECURSIVE FirstMatchOrder(_, _)
FirstMatchOrder(target, i) ==
    IF i = 0 THEN <<>>
    ELSE LET before == FirstMatchOrder(target, i - 1)
         IN  IF target[i] = None THEN before
             ELSE IF \E k \in 1..Len(before) : before[k] = target[i][1] THEN before
             ELSE Append(before, target[i][1])

\* C7: the container's first child is the part that carries the rewritten
\* document, it is the only such part, and it is followed by exactly one
\* part per resource; the resource parts, and the list of inlined paths,
\* are in the order in which their distinct canonical paths are first
\* matched, which repeated references neither reorder nor duplicate.
C7_PartOrder ==
    pc = "done" =>
        LET order == FirstMatchOrder(Targets, Len(matches))
        IN  /\ Len(output) = 1 + Len(resources)
            /\ output[1].ctype = "text/html"
            /\ output[1].cid = ""
            /\ output[1].payload = new_html
            /\ \A k \in 2..Len(output) : output[k].cid # ""
            /\ [k \in 1..(Len(output) - 1) |-> output[k + 1].location] = order
            /\ inlined = order

C7_Witness ==
    /\ pc = "done"
    /\ html_name = "s/x.htm"
    /\ Len(matches) = 3
    /\ matches[1].path = "/d/a.png"
    /\ matches[2].path = "x.htm"
    /\ matches[3].path = "/d/a.png"
    /\ Len(output) = 3
    /\ output[2].location = "d/a.png"
    /\ output[3].location = "s/x.htm"
    /\ inlined = <<"d/a.png", "s/x.htm">>

\* the resource parts of the container
ResourceParts == 2..Len(output)

\* the references whose value the rewriter replaced
Inserted == {i \in Refs : output[1].payload[i] # Group0(matches[i])}

\* C10: in the container, every cid: value the rewriter inserted names the
\* Content-ID of exactly one resource part, whose Content-Location is the
\* canonical path the reference resolved to; every resource part is named
\* by a rewritten value; parts with distinct paths have distinct
\* identifiers.
C10_CidIntegrity ==
    pc = "done" =>
        LET target == Targets
        IN  /\ \A i \in Inserted :
                  LET value == ValueIn(output[1].payload, i)
                      parts == {k \in ResourceParts :
                                   output[k].cid = "<" \o Rest(value, 5) \o ">"}
                  IN  /\ StartsWith(value, "cid:")
                      /\ Cardinality(parts) = 1
                      /\ target[i] # None
                      /\ \A k \in parts : output[k].location = target[i][1]
            /\ \A k \in ResourceParts :
                  \E i \in Inserted :
                      "cid:" \o SubSeq(output[k].cid, 2, Len(output[k].cid) - 1)
                          = ValueIn(output[1].payload, i)
            /\ \A k \in ResourceParts : \A l \in ResourceParts :
                  output[k].location # output[l].location => output[k].cid # output[l].cid

C10_Witness ==
    /\ pc = "done"
    /\ html_name = "x.htm"
    /\ Len(matches) = 3
    /\ matches[1].path = "d/a%20b.png"
    /\ matches[2].path = "b.png?v#f"
    /\ matches[3].path = "cid:b.png"
    /\ Inserted = {1, 2}
    /\ Len(output) = 3
    /\ output[2].location = "d/a b.png"
    /\ output[3].location = "b.png"
    /\ output[2].cid # output[3].cid

=============================================================================
